---- MODULE Spec2Model ----
(***************************************************************************)
(* Model of lisatools.globalfit.hdfbackend.HDFBackend: the band-diagnostics *)
(* extension of the eryn HDF5 checkpoint store.  The HDF5 file is modelled  *)
(* as the group g = f[self.name]: its "iteration" attribute, the length of  *)
(* the base ensemble arrays, and the "band_info" sub-group with its         *)
(* "num_bands" attribute and its nine datasets (band_edges plus the eight   *)
(* per-iteration diagnostics arrays).                                       *)
(*                                                                         *)
(* The base class (eryn.backends.HDFBackend) is used through its contract: *)
(* reset recreates the group with iteration 0 and zero-length arrays, grow *)
(* resizes the base arrays to iteration + ngrow, save_step writes the base *)
(* row at index iteration (raising when there is no such row) and then     *)
(* increments the iteration attribute.  Datasets follow h5py: resize needs *)
(* a chunked dataset and cannot exceed maxshape, a dataset created from    *)
(* data without maxshape is fixed at its length and chunked only under a   *)
(* compression filter, slices are clipped to the dataset, an index outside *)
(* the dataset raises, and a group is iterated by member name.             *)
(***************************************************************************)
EXTENDS Integers, Sequences, FiniteSets, TLC

\* ------------------------------------------------------------------ bounds
MaxLen == 2        \* largest iteration-axis length requested by grow
MaxGrow == 2       \* largest ngrow passed to grow
MaxBands == 1      \* largest num_bands passed to reset
MaxCounter == 1    \* largest value of a band counter in the ensemble state
MaxThin == 2       \* largest thin passed to get_value
MaxDiscard == 1    \* largest discard passed to get_value
MaxStages == 3     \* largest number of modules in a PipelineGuide
MaxSamples == 3    \* largest number of samples in a prior store
MaxLogl == 2       \* largest log-likelihood value in a prior store
MaxSeeds == 2      \* largest ntemps * nwalkers of a seeded stage
MaxData == 3       \* largest length of a data channel or of f_arr
MaxCalls == 2      \* largest number of store operations whose handles are followed

\* ------------------------------------------------------------ the group
\* Members of g["band_info"] in the order h5py iterates a group (by name).
GroupKeys ==
  << "band_edges", "band_num_accepted", "band_num_accepted_rj",
     "band_num_binaries", "band_num_proposed", "band_num_proposed_rj",
     "band_swaps_accepted", "band_swaps_proposed", "band_temps" >>

KeySet == { GroupKeys[i] : i \in 1..Len(GroupKeys) }

\* The per-iteration diagnostics arrays, in the order reset creates them.
DiagKeys ==
  << "band_temps", "band_swaps_proposed", "band_swaps_accepted",
     "band_num_proposed", "band_num_accepted", "band_num_proposed_rj",
     "band_num_accepted_rj", "band_num_binaries" >>

DiagSet == { DiagKeys[i] : i \in 1..Len(DiagKeys) }

\* The arrays of state.band_info that reset_band_counters sets to zero.
CounterSet == DiagSet \ {"band_temps"}

Min(a, b) == IF a < b THEN a ELSE b

\* A dataset that does not exist (before reset).
NoDataset == [data |-> <<>>, chunked |-> FALSE, unlimited |-> FALSE, maxlen |-> 0]

NoBandInfo == [k \in KeySet |-> NoDataset]

NoVal == [k \in KeySet |-> <<>>]

NoShape == [nwalkers |-> 0, ntemps |-> 0, num_bands |-> 0]

\* band_info.create_dataset("band_edges", data=band_edges, compression=...):
\* no maxshape, so the dataset is fixed at its creation length; it is chunked
\* only when a compression filter is configured on the backend.
EdgesDataset(band_edges, compr) ==
  [data |-> band_edges, chunked |-> compr, unlimited |-> FALSE,
   maxlen |-> Len(band_edges)]

\* band_info.create_dataset(name, (0, ...), maxshape=(None, ...)).
DiagDataset == [data |-> <<>>, chunked |-> TRUE, unlimited |-> TRUE, maxlen |-> 0]

\* band_info.attrs["num_bands"] as reset stores it.
num_bands_attr(num_bands, band_edges) == Len(band_edges)

\* Variant: the guard written with "and".
reset_args_missing_and(nbGiven, beGiven) == (~nbGiven) /\ (~beGiven)

\* The guard at the top of reset.
reset_args_missing(nbGiven, beGiven) == (~nbGiven) \/ (~beGiven)

Zeros(n) == [i \in 1..n |-> 0]

\* h5py Dataset.resize(size, axis=0): only chunked datasets can be resized,
\* and never beyond maxshape; shrinking drops rows, extending fills with 0.
resize(ds, size) ==
  IF ~ds.chunked THEN [status |-> "TypeError", ds |-> ds]
  ELSE IF (~ds.unlimited) /\ size > ds.maxlen THEN [status |-> "ValueError", ds |-> ds]
  ELSE [status |-> "ok",
        ds |-> [ds EXCEPT !.data =
                  IF size <= Len(ds.data) THEN SubSeq(ds.data, 1, size)
                  ELSE ds.data \o Zeros(size - Len(ds.data))]]

\* ntot computed by grow.
grow_ntot(it, ngrow) == it + ngrow

\* "for key in g['band_info']: g['band_info'][key].resize(ntot, axis=0)":
\* the loop stops at the first resize that raises.
RECURSIVE resize_all(_, _, _)
resize_all(bi, keys, ntot) ==
  IF keys = <<>> THEN [status |-> "ok", band_info |-> bi]
  ELSE LET r == resize(bi[Head(keys)], ntot)
       IN IF r.status # "ok" THEN [status |-> r.status, band_info |-> bi]
          ELSE resize_all([bi EXCEPT ![Head(keys)] = r.ds], Tail(keys), ntot)

\* Keys of the group that grow resizes.
grow_keys == GroupKeys

\* Variant: the iteration attribute used without the "- 1".
save_index_cur(it) == it

\* Index of the diagnostics row written by save_step, from the iteration
\* attribute as left by the base save_step.
save_index(it) == it - 1

\* The array state.band_info[name].
StateValue(st, name) == IF name = "band_temps" THEN st.temps ELSE st.counters

\* g["band_info"][name][idx] = dat on an h5py dataset: an index outside the
\* dataset raises.
write_row(ds, idx, dat) ==
  IF idx < 0 \/ idx >= Len(ds.data) THEN [status |-> "IndexError", ds |-> ds]
  ELSE [status |-> "ok", ds |-> [ds EXCEPT !.data[idx + 1] = dat]]

\* "for name, dat in state.band_info.items(): g['band_info'][name][iteration] = dat"
RECURSIVE write_all(_, _, _, _)
write_all(bi, keys, idx, st) ==
  IF keys = <<>> THEN [status |-> "ok", band_info |-> bi, done |-> {}]
  ELSE LET r == write_row(bi[Head(keys)], idx, StateValue(st, Head(keys)))
       IN IF r.status # "ok" THEN [status |-> r.status, band_info |-> bi, done |-> {}]
          ELSE LET rest == write_all([bi EXCEPT ![Head(keys)] = r.ds], Tail(keys), idx, st)
               IN [rest EXCEPT !.done = rest.done \cup {Head(keys)}]

\* state.reset_band_counters()
reset_band_counters(st) == [st EXCEPT !.counters = 0]

\* Variant: the counters reset in a "finally" clause.
state_after_save_always(st, status) == reset_band_counters(st)

\* The ensemble state save_step leaves behind: the counters are reset only
\* when neither the base save_step nor the diagnostics write raised.
state_after_save(st, status) ==
  IF status = "ok" THEN reset_band_counters(st) ELSE st

\* Python / h5py slicing ds[start:stop:step] of a dataset of any length.
RECURSIVE SliceFrom(_, _, _, _)
SliceFrom(data, i, stop, step) ==
  IF i >= Min(stop, Len(data)) THEN <<>>
  ELSE <<data[i + 1]>> \o SliceFrom(data, i + step, stop, step)

\* Variant: slice(discard + thin, self.iteration, thin).
default_slice_off(thin, discard, it) ==
  [start |-> discard + thin, stop |-> it, step |-> thin]

\* slice(discard + thin - 1, self.iteration, thin)
default_slice(thin, discard, it) ==
  [start |-> discard + thin - 1, stop |-> it, step |-> thin]

\* Variant: the test written as "iteration < 0".
no_iterations_neg(it) == it < 0

\* The "iteration <= 0" test of get_value.
no_iterations(it) == it <= 0

\* get_value("band_info", thin, discard, slice_vals) on the store (init, it, bi).
get_value(init, it, bi, thin, discard, sliced, sv) ==
  IF ~init THEN [status |-> "AttributeError", val |-> NoVal]
  ELSE LET sl == IF sliced THEN sv ELSE default_slice(thin, discard, it)
       IN IF no_iterations(it) THEN [status |-> "AttributeError", val |-> NoVal]
          ELSE [status |-> "ok",
                val |-> [k \in KeySet |-> SliceFrom(bi[k].data, sl.start, sl.stop, sl.step)]]

\* Attributes the base reset writes on the group g = f[self.name]; reset of
\* this class writes "num_bands" on g["band_info"] only.
BaseGroupAttrs ==
  {"version", "nwalkers", "ntemps", "nleaves_max", "ndims", "branch_names",
   "nbranches", "rj", "has_blobs", "iteration"}

\* The band_edges property: f[self.name].attrs["num_bands"].
band_edges_property(init, attrNb, bi) ==
  IF ~init THEN [status |-> "KeyError", num |-> 0, edges |-> <<>>]
  ELSE IF "num_bands" \in BaseGroupAttrs
       THEN [status |-> "ok", num |-> attrNb, edges |-> <<>>]
       ELSE [status |-> "KeyError", num |-> 0, edges |-> <<>>]

\* Keys of the dict the reset_kwargs property builds.
reset_kwargs_keys ==
  {"nleaves_max", "ntemps", "branch_names", "rj", "moves", "num_bands"}

\* thin chosen by get_a_sample(it).
sample_thin(it, iter) == IF it # iter THEN iter - it ELSE 1

\* discard chosen by get_a_sample(it).
sample_discard(it) == it - 1

\* ------------------------------------------------------------------ inputs
BandEdgesOf(nb) == [i \in 1..(nb + 1) |-> i - 1]

NumBandsArgs == 1..MaxBands
NTempsArgs == {2}
NWalkersArgs == {2}
SliceArgs == [start : {0, 1}, stop : {1, MaxLen}, step : {1, MaxThin}]
NoSlice == [start |-> 0, stop |-> 0, step |-> 1]

\* Arguments of get_value / get_band_info: every thin and discard without
\* slice_vals, and each slice_vals under two different (thin, discard).
ReadArgs ==
  [thin : 1..MaxThin, discard : 0..MaxDiscard, sliced : {FALSE}, sv : {NoSlice}]
    \cup { [thin |-> td[1], discard |-> td[2], sliced |-> TRUE, sv |-> sv] :
             td \in {<<1, 0>>, <<MaxThin, MaxDiscard>>}, sv \in SliceArgs }
EnsembleStates == [temps : {1}, counters : 0..MaxCounter]

\* ------------------------------------------------------------------- state
VARIABLES
  compression,   \* backend constructed with a compression filter
  initialized,   \* self.name in f
  iteration,     \* g.attrs["iteration"]
  baseLen,       \* iteration-axis length of the base ensemble arrays
  shape,         \* dimensions the diagnostics arrays were created with
  attrNumBands,  \* g["band_info"].attrs["num_bands"]
  band_info,     \* datasets of g["band_info"]
  state,         \* the sampler's ensemble state (band_info part)
  ret,           \* the last call: operation, arguments, outcome
  resetArgs,     \* history: num_bands and band_edges of the last successful reset
  passed,        \* history: states passed to the committed save_step calls since reset
  written,       \* history: <<name, index>> diagnostics slots written since reset
  rewritten,     \* history: some slot of written was written again
  scen           \* history: calls since reset are reset, grow(k), save_step^n

\* The pipeline: PipelineGuide, its InfoManager and its modules.
VARIABLES
  module_list,   \* PipelineGuide.module_list: the configured stages
  info,          \* the InfoManager: attributes set on it, data_length, len(fd)
  pc,            \* where PipelineGuide.run stands
  cur,           \* index of the stage run is at
  error,         \* the exception that left run, if any
  log,           \* history: bind / run / publish events of the stages
  opened,        \* history: store paths opened by each stage's update_module
  stops          \* sampler_kwargs stopping entries built by each update_module

\* The seeding of a stage's start state from a prior store.
VARIABLES
  log_prob,      \* reader.get_log_prob().flatten()
  nsel,          \* ntemps * nwalkers
  perm,          \* np.argsort(log_prob)
  start_inds,    \* the selected sample indices
  seedPc         \* "input" before the selection, "done" after it

storeVars == <<initialized, iteration, baseLen, shape, attrNumBands, band_info>>
histVars == <<resetArgs, passed, written, rewritten, scen>>
storeAll == <<compression, storeVars, state, ret, histVars>>
pipeVars == <<module_list, info, pc, cur, error, log, opened, stops>>
seedVars == <<log_prob, nsel, perm, start_inds, seedPc>>

\* A DataResidualArray under construction: its arguments and what the
\* constructor left behind.
VARIABLES
  container

\* The handles on the store file: the operation under way, the "with" blocks
\* it still has to go through, and the number of handles open.
VARIABLES
  fh
vars == <<compression, initialized, iteration, baseLen, shape, attrNumBands,
          band_info, state, ret, resetArgs, passed, written, rewritten, scen,
          module_list, info, pc, cur, error, log, opened, stops,
          log_prob, nsel, perm, start_inds, seedPc, container, fh>>

NoRet ==
  [op |-> "none", status |-> "ok", nbGiven |-> FALSE, beGiven |-> FALSE, n |-> 0,
   thin |-> 1, discard |-> 0, sliced |-> FALSE, sv |-> NoSlice,
   val |-> NoVal, num |-> 0, edges |-> <<>>, keys |-> {}]

NoScen == [phase |-> "none", k |-> 0, n |-> 0]

OffScen == [phase |-> "off", k |-> 0, n |-> 0]

\* The pipeline before any PipelineGuide exists.
PipeIdle ==
  /\ module_list = <<>>
  /\ info = [fields |-> <<>>, data_length |-> 0, fd_len |-> 0]
  /\ pc = "idle"
  /\ cur = 0
  /\ error = "none"
  /\ log = <<>>
  /\ opened = <<>>
  /\ stops = <<>>

\* No seeding in progress.
SeedIdle ==
  /\ log_prob = <<>>
  /\ nsel = 0
  /\ perm = <<>>
  /\ start_inds = <<>>
  /\ seedPc = "idle"

NoContainer ==
  [pc |-> "idle", dt |-> FALSE, f_arr |-> 0, df |-> FALSE, data |-> <<>>,
   status |-> "none", raisedAt |-> "none", stored |-> FALSE,
   data_length |-> 0, f_len |-> 0]

DataIdle == container = NoContainer

NoHandles ==
  [op |-> "none", segs |-> <<>>, phase |-> "idle", open |-> 0,
   status |-> "none", calls |-> 0]

HandleIdle == fh = NoHandles

Init ==
  /\ PipeIdle
  /\ SeedIdle
  /\ DataIdle
  /\ HandleIdle
  /\ compression \in BOOLEAN
  /\ initialized = FALSE
  /\ iteration = 0
  /\ baseLen = 0
  /\ shape = NoShape
  /\ attrNumBands = 0
  /\ band_info = NoBandInfo
  /\ state \in EnsembleStates
  /\ ret = NoRet
  /\ resetArgs = [num_bands |-> 0, band_edges |-> <<>>]
  /\ passed = <<>>
  /\ written = {}
  /\ rewritten = FALSE
  /\ scen = NoScen

\* reset(nwalkers, ntemps=.., num_bands=.., band_edges=..)
Reset ==
  \E nw \in NWalkersArgs, nt \in NTempsArgs, nb \in NumBandsArgs,
     nbGiven \in BOOLEAN, beGiven \in BOOLEAN :
    LET be == BandEdgesOf(nb)
        call == [NoRet EXCEPT !.op = "reset", !.nbGiven = nbGiven, !.beGiven = beGiven]
    IN IF reset_args_missing(nbGiven, beGiven)
       THEN /\ ret' = [call EXCEPT !.status = "ValueError"]
            /\ UNCHANGED <<pipeVars, seedVars, container, fh, compression, storeVars, state, histVars>>
       ELSE \* super().reset: the group is created anew with iteration 0
            /\ initialized' = TRUE
            /\ iteration' = 0
            /\ baseLen' = 0
            /\ shape' = [nwalkers |-> nw, ntemps |-> nt, num_bands |-> nb]
            /\ attrNumBands' = num_bands_attr(nb, be)
            /\ band_info' = [k \in KeySet |->
                               IF k = "band_edges" THEN EdgesDataset(be, compression)
                               ELSE DiagDataset]
            /\ ret' = call
            /\ resetArgs' = [num_bands |-> nb, band_edges |-> be]
            /\ passed' = <<>>
            /\ written' = {}
            /\ rewritten' = FALSE
            /\ scen' = [phase |-> "reset", k |-> 0, n |-> 0]
            /\ UNCHANGED <<pipeVars, seedVars, container, fh, compression, state>>

\* grow(ngrow)
Grow ==
  \E ngrow \in 0..MaxGrow :
    /\ initialized
    /\ iteration + ngrow <= MaxLen
    /\ LET ntot == grow_ntot(iteration, ngrow)
           r == resize_all(band_info, grow_keys, ntot)
       IN /\ baseLen' = iteration + ngrow          \* super().grow
          /\ band_info' = r.band_info
          /\ ret' = [NoRet EXCEPT !.op = "grow", !.n = ngrow, !.status = r.status]
    /\ scen' = IF scen.phase = "reset"
               THEN [phase |-> "grown", k |-> ngrow, n |-> 0]
               ELSE OffScen
    /\ UNCHANGED <<pipeVars, seedVars, container, fh, compression, initialized, iteration, shape, attrNumBands, state,
                   resetArgs, passed, written, rewritten>>

\* save_step(state, ...)
SaveStep ==
  /\ initialized
  /\ scen' = IF scen.phase = "grown" /\ scen.n < scen.k
             THEN [scen EXCEPT !.n = scen.n + 1]
             ELSE OffScen
  /\ IF iteration >= baseLen
     THEN \* super().save_step raises: no free slot in the base arrays
          /\ ret' = [NoRet EXCEPT !.op = "save_step", !.status = "IndexError"]
          /\ state' = state_after_save(state, "IndexError")
          /\ UNCHANGED <<pipeVars, seedVars, container, fh, compression, storeVars, resetArgs, passed,
                         written, rewritten>>
     ELSE LET idx == save_index(iteration + 1)
              w == write_all(band_info, DiagKeys, idx, state)
              slots == { <<k, idx>> : k \in w.done }
          IN /\ iteration' = iteration + 1         \* super().save_step
             /\ passed' = Append(passed, state)
             /\ band_info' = w.band_info
             /\ written' = written \cup slots
             /\ rewritten' = (rewritten \/ (slots \cap written # {}))
             /\ ret' = [NoRet EXCEPT !.op = "save_step", !.status = w.status]
             /\ state' = state_after_save(state, w.status)
             /\ UNCHANGED <<pipeVars, seedVars, container, fh, compression, initialized, baseLen, shape, attrNumBands,
                            resetArgs>>

\* The sampler accumulates band counters between two saved steps.
Sample ==
  /\ \E st \in EnsembleStates : st.counters > 0 /\ state' = st /\ st # state
  /\ ret' = [NoRet EXCEPT !.op = "sample"]
  /\ UNCHANGED <<pipeVars, seedVars, container, fh, compression, storeVars, histVars>>

ReadCall(op) ==
  \E a \in ReadArgs :
    /\ LET r == get_value(initialized, iteration, band_info, a.thin, a.discard,
                          a.sliced, a.sv)
       IN ret' = [NoRet EXCEPT !.op = op, !.status = r.status, !.thin = a.thin,
                               !.discard = a.discard, !.sliced = a.sliced,
                               !.sv = a.sv, !.val = r.val]
    /\ UNCHANGED <<pipeVars, seedVars, container, fh, compression, storeVars, state, histVars>>

\* get_value("band_info", thin=.., discard=.., slice_vals=..)
GetValue == ReadCall("get_value")

\* get_band_info(**kwargs)
GetBandInfo == ReadCall("get_band_info")

\* the num_bands property
GetNumBands ==
  /\ ret' = IF initialized
            THEN [NoRet EXCEPT !.op = "num_bands", !.num = attrNumBands]
            ELSE [NoRet EXCEPT !.op = "num_bands", !.status = "KeyError"]
  /\ UNCHANGED <<pipeVars, seedVars, container, fh, compression, storeVars, state, histVars>>

\* the band_edges property
GetBandEdges ==
  /\ LET r == band_edges_property(initialized, attrNumBands, band_info)
     IN ret' = [NoRet EXCEPT !.op = "band_edges", !.status = r.status,
                             !.num = r.num, !.edges = r.edges]
  /\ UNCHANGED <<pipeVars, seedVars, container, fh, compression, storeVars, state, histVars>>

\* reset(nwalkers, **reset_kwargs) on a store file that is created anew
ResetFromKwargs ==
  /\ initialized
  /\ LET keys == reset_kwargs_keys
         nbGiven == "num_bands" \in keys
         beGiven == "band_edges" \in keys
         nb == attrNumBands                      \* num_bands=self.num_bands
         be == band_info["band_edges"].data
         call == [NoRet EXCEPT !.op = "reset_from_kwargs", !.nbGiven = nbGiven,
                               !.beGiven = beGiven, !.keys = keys, !.num = nb]
     IN IF reset_args_missing(nbGiven, beGiven)
        THEN /\ ret' = [call EXCEPT !.status = "ValueError"]
             /\ UNCHANGED <<pipeVars, seedVars, container, fh, compression, storeVars, state, histVars>>
        ELSE /\ initialized' = TRUE
             /\ iteration' = 0
             /\ baseLen' = 0
             /\ shape' = [shape EXCEPT !.num_bands = nb]
             /\ attrNumBands' = num_bands_attr(nb, be)
             /\ band_info' = [k \in KeySet |->
                                IF k = "band_edges" THEN EdgesDataset(be, compression)
                                ELSE DiagDataset]
             /\ ret' = call
             /\ passed' = <<>>
             /\ written' = {}
             /\ rewritten' = FALSE
             /\ scen' = OffScen
             /\ UNCHANGED <<pipeVars, seedVars, container, fh, compression, state, resetArgs>>

\* get_a_sample(it) for a committed iteration it
GetASample ==
  \E it \in 1..MaxLen :
    /\ initialized
    /\ it <= iteration
    /\ LET r == get_value(initialized, iteration, band_info,
                          sample_thin(it, iteration), sample_discard(it),
                          FALSE, NoSlice)
       IN ret' = [NoRet EXCEPT !.op = "get_a_sample", !.status = r.status,
                               !.n = it, !.thin = sample_thin(it, iteration),
                               !.discard = sample_discard(it), !.val = r.val]
    /\ UNCHANGED <<pipeVars, seedVars, container, fh, compression, storeVars, state, histVars>>

Next ==
  \/ Reset
  \/ Grow
  \/ SaveStep
  \/ Sample
  \/ GetValue
  \/ GetBandInfo
  \/ GetNumBands
  \/ GetBandEdges
  \/ ResetFromKwargs
  \/ GetASample

Spec == Init /\ [][Next]_vars

\* ------------------------------------------------------------------ crash
\* The process stops during save_step and the store is opened again: either
\* before the base class committed the step (nothing was written), or after
\* it did, when the first j diagnostics rows of the step were written.
SaveStepCrash ==
  /\ initialized
  /\ \E committed \in BOOLEAN, j \in 0..Len(DiagKeys) :
       IF ~committed
       THEN /\ j = 0
            /\ ret' = [NoRet EXCEPT !.op = "crash", !.status = "base"]
            /\ scen' = OffScen
            /\ UNCHANGED <<compression, storeVars, state, resetArgs, passed,
                           written, rewritten>>
       ELSE /\ iteration < baseLen
            /\ LET idx == save_index(iteration + 1)
                   w == write_all(band_info, SubSeq(DiagKeys, 1, j), idx, state)
                   slots == { <<k, idx>> : k \in w.done }
               IN /\ iteration' = iteration + 1     \* super().save_step
                  /\ passed' = Append(passed, state)
                  /\ band_info' = w.band_info
                  /\ written' = written \cup slots
                  /\ rewritten' = (rewritten \/ (slots \cap written # {}))
                  /\ ret' = [NoRet EXCEPT !.op = "crash", !.status = "diagnostics",
                                          !.n = j]
                  /\ scen' = OffScen
                  /\ UNCHANGED <<compression, initialized, baseLen, shape,
                                 attrNumBands, state, resetArgs>>
  /\ UNCHANGED <<pipeVars, seedVars, container, fh>>

CrashNext ==
  \/ Reset
  \/ Grow
  \/ SaveStep
  \/ Sample
  \/ SaveStepCrash

CrashSpec == Init /\ [][CrashNext]_vars

\* ---------------------------------------------------------------- pipeline
\* Attributes of the InfoManager that hold store locations.
FieldNames == {"fp_search_init", "fp_search", "fp_pe"}

\* An attribute that was never set on the InfoManager.
Absent == <<"absent", 0>>

\* A store location handed to InfoManager(**kwargs) by the caller.
SeedPath == <<"seed", 0>>

\* The output location the i-th module was initialized with (self.fp,
\* self.fp_search_rel_bin, self.fp_pe_rel_bin).
StagePath(i) == <<"stage", i>>

\* Module kinds: MBHBase with search=True / search=False, MBHRelBinSearch,
\* MBHRelBinPE.
MBHBaseTypes == {"search", "refine"}

\* The stopping parameters exist on MBHBase only; the relative-binning
\* modules take none (further keywords are ignored), which the two flags
\* record as not given.
StageConfigs ==
  [type : MBHBaseTypes, n_iter_stop : BOOLEAN, snr_stopping : BOOLEAN]
    \cup [type : {"relbin_search", "relbin_pe"}, n_iter_stop : {FALSE},
          snr_stopping : {FALSE}]

ModuleLists == UNION { [1..n -> StageConfigs] : n \in 0..MaxStages }

DataLens == {2, 3}

\* As read_field, but MBHRelBinPE seeds from the initial search store.
read_field_init(cfg) ==
  CASE cfg.type = "search" -> {}
    [] cfg.type = "refine" -> {"fp_search_init"}
    [] cfg.type = "relbin_search" -> {"fp_search_init"}
    [] cfg.type = "relbin_pe" -> {"fp_search_init"}

\* The InfoManager attribute update_module reads to open the prior store
\* (none when MBHBase runs with search=True).
read_field(cfg) ==
  CASE cfg.type = "search" -> {}
    [] cfg.type = "refine" -> {"fp_search_init"}
    [] cfg.type = "relbin_search" -> {"fp_search_init"}
    [] cfg.type = "relbin_pe" -> {"fp_search"}

\* The InfoManager attribute update_information sets.
publish_field(cfg) ==
  CASE cfg.type = "search" -> "fp_search_init"
    [] cfg.type = "refine" -> "fp_pe"
    [] cfg.type = "relbin_search" -> "fp_search"
    [] cfg.type = "relbin_pe" -> "fp_pe"

\* As update_information, but the other locations are forgotten.
update_information_fresh(inf, cfg, fp) ==
  [inf EXCEPT !.fields = [f \in FieldNames |->
                            IF f = publish_field(cfg) THEN fp ELSE Absent]]

\* update_information(info_manager, fp): one attribute of the InfoManager is
\* set.
update_information(inf, cfg, fp) ==
  [inf EXCEPT !.fields[publish_field(cfg)] = fp]

\* As run_module_steps, but the location is published before the sampler runs.
run_module_steps_early(cfg) == <<"publish", "run">>

\* What run_module does, in order: run_sampler, then update_information.
run_module_steps(cfg) == <<"run", "publish">>

\* As stopping_iter, but the cadence is the one handed to initialize_module.
stopping_iter_configured(cfg) == cfg.cadence

\* The number of iterations between two evaluations of the stopping function
\* that update_module hands to the sampler (0: none is handed over).
stopping_iter(cfg) ==
  CASE cfg.type \in MBHBaseTypes ->
         IF cfg.n_iter_stop \/ cfg.snr_stopping THEN 10 ELSE -1
    [] cfg.type = "relbin_search" -> 20
    [] cfg.type = "relbin_pe" -> 0

\* As stop_config, but MBHBase installs both strategies when both are given.
stop_config_both(cfg) ==
  CASE cfg.type \in MBHBaseTypes ->
         IF cfg.n_iter_stop
         THEN [fns |-> {"converge"} \cup (IF cfg.snr_stopping THEN {"snr"} ELSE {}),
               iters |-> stopping_iter(cfg), key |-> "stopping_iterations"]
         ELSE IF cfg.snr_stopping
         THEN [fns |-> {"snr"}, iters |-> stopping_iter(cfg), key |-> "stopping_iterations"]
         ELSE [fns |-> {}, iters |-> stopping_iter(cfg), key |-> "stopping_iterations"]
    [] cfg.type = "relbin_search" ->
         [fns |-> {"converge"}, iters |-> stopping_iter(cfg), key |-> "stopping_iter"]
    [] cfg.type = "relbin_pe" ->
         [fns |-> {}, iters |-> stopping_iter(cfg), key |-> "absent"]

\* The stopping entries update_module puts into sampler_kwargs: the stopping
\* functions installed, the cadence, and the keyword the cadence is passed as.
stop_config(cfg) ==
  CASE cfg.type \in MBHBaseTypes ->
         IF cfg.n_iter_stop
         THEN [fns |-> {"converge"}, iters |-> stopping_iter(cfg),
               key |-> "stopping_iterations"]
         ELSE IF cfg.snr_stopping
         THEN [fns |-> {"snr"}, iters |-> stopping_iter(cfg),
               key |-> "stopping_iterations"]
         ELSE [fns |-> {}, iters |-> stopping_iter(cfg),
               key |-> "stopping_iterations"]
    [] cfg.type = "relbin_search" ->
         [fns |-> {"converge"}, iters |-> stopping_iter(cfg), key |-> "stopping_iter"]
    [] cfg.type = "relbin_pe" ->
         [fns |-> {}, iters |-> stopping_iter(cfg), key |-> "absent"]

NoStop == [fns |-> {}, iters |-> 0, key |-> "unset"]

\* How run_sampler can return: after its iteration budget, or earlier when
\* an installed stopping function says so.
sampler_ends(stop) == IF stop.fns = {} THEN {"budget"} ELSE {"budget", "stopped"}

\* As on_stage_error, but the loop goes on with the next module.
on_stage_error_skip(c, n) ==
  IF c < n THEN [pc |-> "bind", cur |-> c + 1] ELSE [pc |-> "done", cur |-> c]

\* PipelineGuide.run has no handler: an exception raised by a module leaves
\* the loop.
on_stage_error(c, n) == [pc |-> "failed", cur |-> c]

\* As next_stage, but the loop ends one module early.
next_stage_short(c, n) ==
  IF c + 1 < n THEN [pc |-> "bind", cur |-> c + 1] ELSE [pc |-> "done", cur |-> c]

\* After module c of n returned: the loop goes to the next module or ends.
next_stage(c, n) ==
  IF c < n THEN [pc |-> "bind", cur |-> c + 1] ELSE [pc |-> "done", cur |-> c]

Event(ev, i, why) == [ev |-> ev, stage |-> i, why |-> why]

\* The store side of a state in which only the pipeline or the seeding runs.
StoreIdle ==
  /\ compression = FALSE
  /\ initialized = FALSE
  /\ iteration = 0
  /\ baseLen = 0
  /\ shape = NoShape
  /\ attrNumBands = 0
  /\ band_info = NoBandInfo
  /\ state = [temps |-> 1, counters |-> 0]
  /\ ret = NoRet
  /\ resetArgs = [num_bands |-> 0, band_edges |-> <<>>]
  /\ passed = <<>>
  /\ written = {}
  /\ rewritten = FALSE
  /\ scen = NoScen

\* InfoManager(data=.., fd=.., **kwargs) with channels and a frequency grid of
\* two entries, the modules' initialize_module and
\* PipelineGuide(info_manager, module_list).
PipeInit ==
  /\ StoreIdle
  /\ SeedIdle
  /\ DataIdle
  /\ HandleIdle
  /\ module_list \in ModuleLists
  /\ \E seeded \in BOOLEAN :
       info = [fields |-> [f \in FieldNames |->
                             IF seeded /\ f \in {"fp_search_init", "fp_search"}
                             THEN SeedPath ELSE Absent],
               data_length |-> 2, fd_len |-> 2]
  /\ pc = "pending"
  /\ cur = 0
  /\ error = "none"
  /\ log = <<>>
  /\ opened = [i \in 1..Len(module_list) |-> {}]
  /\ stops = [i \in 1..Len(module_list) |-> NoStop]

\* PipelineGuide.run enters its loop over module_list.
RunStart ==
  /\ pc = "pending"
  /\ LET nx == next_stage(0, Len(module_list))
     IN pc' = nx.pc /\ cur' = nx.cur
  /\ UNCHANGED <<storeAll, seedVars, container, fh, module_list, info, error, log, opened, stops>>

\* module.update_module(info_manager): sampler_kwargs are built, the prior
\* store named by the InfoManager is opened and the sampling guide is set up.
UpdateModule ==
  /\ pc = "bind"
  /\ LET cfg == module_list[cur]
         need == read_field(cfg)
         missing == \E f \in need : info.fields[f] = Absent
         installed == [stops EXCEPT ![cur] = stop_config(cfg)]
         \* MBHBase builds sampler_kwargs before it opens the prior store,
         \* the relative-binning modules after.
         fail(err, late) ==
           LET nx == on_stage_error(cur, Len(module_list))
           IN /\ pc' = nx.pc /\ cur' = nx.cur
              /\ error' = err
              /\ log' = Append(log, Event("bind", cur, "error"))
              /\ stops' = IF late \/ cfg.type \in MBHBaseTypes
                          THEN installed ELSE stops
              /\ UNCHANGED opened
     IN IF missing
        THEN fail("AttributeError", FALSE)
        ELSE \E ok, late \in BOOLEAN :
               IF ok
               THEN /\ late
                    /\ opened' = [opened EXCEPT
                                    ![cur] = { info.fields[f] : f \in need }]
                    /\ stops' = installed
                    /\ log' = Append(log, Event("bind", cur, "ok"))
                    /\ pc' = "run"
                    /\ UNCHANGED <<cur, error>>
               ELSE fail("bind", late)
  /\ UNCHANGED <<storeAll, seedVars, container, fh, module_list, info>>

\* module.run_module(progress=progress): the sampler runs, then the module
\* calls update_information with its own output location.
RunModule ==
  /\ pc = "run"
  /\ LET cfg == module_list[cur]
     IN \E why \in sampler_ends(stops[cur]) \cup {"error"} :
          IF why = "error"
          THEN LET nx == on_stage_error(cur, Len(module_list))
               IN /\ pc' = nx.pc /\ cur' = nx.cur
                  /\ error' = "run"
                  /\ log' = Append(log, Event("run", cur, "error"))
                  /\ UNCHANGED info
          ELSE LET nx == next_stage(cur, Len(module_list))
                   steps == run_module_steps(cfg)
               IN /\ pc' = nx.pc /\ cur' = nx.cur
                  /\ UNCHANGED error
                  /\ info' = IF \E k \in DOMAIN steps : steps[k] = "publish"
                             THEN update_information(info, cfg, StagePath(cur))
                             ELSE info
                  /\ log' = log \o [k \in DOMAIN steps |->
                                      Event(steps[k], cur,
                                            IF steps[k] = "run" THEN why ELSE "ok")]
  /\ UNCHANGED <<storeAll, seedVars, container, fh, module_list, opened, stops>>

\* info_manager.update_info(data), called between pipeline runs
UpdateInfo ==
  /\ pc \in {"pending", "done"}
  /\ \E L \in DataLens :
       /\ L # info.data_length
       /\ info' = [info EXCEPT !.data_length = L]
  /\ UNCHANGED <<storeAll, seedVars, container, fh, module_list, pc, cur, error, log, opened, stops>>

PipeNext ==
  \/ RunStart
  \/ UpdateModule
  \/ RunModule
  \/ UpdateInfo

PipeSpec == PipeInit /\ [][PipeNext]_vars

\* ----------------------------------------------------------------- cadence
\* Stage configurations in which a cadence is handed to initialize_module,
\* which takes it among its further keywords.
CadenceConfigs ==
  { [type |-> c.type, n_iter_stop |-> c.n_iter_stop,
     snr_stopping |-> c.snr_stopping, cadence |-> n] :
      c \in StageConfigs, n \in {5, 10, 20} }

\* A pipeline of one or two stages configured with cadences.
CadenceInit ==
  /\ StoreIdle
  /\ SeedIdle
  /\ DataIdle
  /\ HandleIdle
  /\ module_list \in UNION { [1..n -> CadenceConfigs] : n \in 1..2 }
  /\ \E seeded \in BOOLEAN :
       info = [fields |-> [f \in FieldNames |->
                             IF seeded /\ f \in {"fp_search_init", "fp_search"}
                             THEN SeedPath ELSE Absent],
               data_length |-> 2, fd_len |-> 2]
  /\ pc = "pending"
  /\ cur = 0
  /\ error = "none"
  /\ log = <<>>
  /\ opened = [i \in 1..Len(module_list) |-> {}]
  /\ stops = [i \in 1..Len(module_list) |-> NoStop]

CadenceSpec == CadenceInit /\ [][PipeNext]_vars

\* ----------------------------------------------------------------- seeding
Chains == UNION { [1..n -> 0..MaxLogl] : n \in 1..MaxSamples }

\* np.argsort(log_prob): some permutation that sorts ascending (the default
\* sort kind is not stable, so ties may come in any order).
ArgSorts(lp) ==
  { p \in [1..Len(lp) -> 1..Len(lp)] :
      /\ \A i, j \in 1..Len(lp) : i # j => p[i] # p[j]
      /\ \A i \in 1..(Len(lp) - 1) : lp[p[i]] <= lp[p[i + 1]] }

\* np.unique(sorted, return_index=True)[1]: the position of the first
\* occurrence of every distinct value, by ascending value.
RECURSIVE unique_index(_, _)
unique_index(sorted, i) ==
  IF i > Len(sorted) THEN <<>>
  ELSE (IF i = 1 \/ sorted[i] # sorted[i - 1] THEN <<i>> ELSE <<>>)
         \o unique_index(sorted, i + 1)

\* As last_n, but the first n entries are kept (inds[:n]).
first_n(inds, n) ==
  IF n >= Len(inds) THEN inds ELSE SubSeq(inds, 1, n)

\* Python inds[-n:]
last_n(inds, n) ==
  IF n = 0 \/ n >= Len(inds) THEN inds
  ELSE SubSeq(inds, Len(inds) - n + 1, Len(inds))

\* start_inds[inds[-int(ntemps * nwalkers):]]
seed_select(lp, p, n) ==
  LET sorted == [i \in 1..Len(lp) |-> lp[p[i]]]
      inds == last_n(unique_index(sorted, 1), n)
  IN [j \in 1..Len(inds) |-> p[inds[j]]]

\* A prior store and the ensemble size of the stage that is seeded from it.
SeedInit ==
  /\ StoreIdle
  /\ PipeIdle
  /\ DataIdle
  /\ HandleIdle
  /\ log_prob \in Chains
  /\ nsel \in 1..MaxSeeds
  /\ perm = <<>>
  /\ start_inds = <<>>
  /\ seedPc = "input"

\* The selection of the start samples in update_module.
SelectStart ==
  /\ seedPc = "input"
  /\ \E p \in ArgSorts(log_prob) :
       /\ perm' = p
       /\ start_inds' = seed_select(log_prob, p, nsel)
  /\ seedPc' = "done"
  /\ UNCHANGED <<storeAll, pipeVars, container, fh, log_prob, nsel>>

SeedNext == SelectStart

SeedSpec == SeedInit /\ [][SeedNext]_vars

\* ---------------------------------------------------------- data container
\* The lengths of the channels handed over as data_res_in.
DataInputs == UNION { [1..c -> 1..MaxData] : c \in 1..2 }

\* _check_inputs: the arguments say which of dt, f_arr, df are not None.
number_of_none(dt, f_arr, df) ==
  (IF dt THEN 0 ELSE 1) + (IF f_arr THEN 0 ELSE 1) + (IF df THEN 0 ELSE 1)

check_inputs(dt, f_arr, df) ==
  IF number_of_none(dt, f_arr, df) = 3 THEN "ValueError"
  ELSE IF number_of_none(dt, f_arr, df) = 1 THEN "ValueError"
  ELSE "ok"

\* The data_res_arr setter: data_length is the length of the first channel,
\* the other channels are asserted to have the same length.
set_data(chans) ==
  IF \A i \in DOMAIN chans : chans[i] = chans[1]
  THEN [status |-> "ok", data_length |-> chans[1]]
  ELSE [status |-> "AssertionError", data_length |-> chans[1]]

\* _store_time_and_frequency_information for data of length n and an f_arr of
\* m entries: the outcomes it can have.
store_time_and_frequency(n, dt, m, df) ==
  IF dt
  THEN \* the data is replaced by its rfft, f_arr is rfftfreq(n, dt)
       { [status |-> "ok", data_length |-> (n \div 2) + 1, f_len |-> (n \div 2) + 1] }
  ELSE IF df
  THEN IF n = 1
       THEN \* fmax = 0.0 and dt = 1 / (2 * fmax)
            { [status |-> "ZeroDivisionError", data_length |-> n, f_len |-> 0] }
       ELSE \* np.arange(0.0, (n - 1) * df, df) has n - 1 entries, or n when
            \* the product rounds up
            { [status |-> IF k = n THEN "ok" ELSE "ValueError",
               data_length |-> n, f_len |-> k] : k \in {n - 1, n} }
  ELSE IF m > 0
  THEN IF m = 1
       THEN \* np.diff(f_arr)[0] of a one-entry f_arr
            { [status |-> "IndexError", data_length |-> n, f_len |-> m] }
       ELSE { [status |-> IF m = n THEN "ok" ELSE "ValueError",
               data_length |-> n, f_len |-> m] }
  ELSE { [status |-> "AttributeError", data_length |-> n, f_len |-> 0] }

\* The arguments of DataResidualArray(data_res_in, dt, f_arr, df), with
\* f_arr = 0 for None and its number of entries otherwise.
DataInit ==
  /\ StoreIdle
  /\ PipeIdle
  /\ SeedIdle
  /\ HandleIdle
  /\ \E dt, df \in BOOLEAN, m \in 0..MaxData, chans \in DataInputs :
       container = [NoContainer EXCEPT !.pc = "input", !.dt = dt, !.f_arr = m,
                                       !.df = df, !.data = chans]

\* DataResidualArray.__init__ on raw data.
Construct ==
  /\ container.pc = "input"
  /\ LET c == container
         done(st, at, stored, n, fl) ==
           [c EXCEPT !.pc = "done", !.status = st, !.raisedAt = at,
                     !.stored = stored, !.data_length = n, !.f_len = fl]
         checked == check_inputs(c.dt, c.f_arr > 0, c.df)
         set == set_data(c.data)
     IN IF checked # "ok"
        THEN container' = done(checked, "check", FALSE, 0, 0)
        ELSE IF set.status # "ok"
        THEN container' = done(set.status, "data", TRUE, set.data_length, 0)
        ELSE \E r \in store_time_and_frequency(set.data_length, c.dt, c.f_arr, c.df) :
               container' = done(r.status, IF r.status = "ok" THEN "none" ELSE "store",
                                 TRUE, r.data_length, r.f_len)
  /\ UNCHANGED <<storeAll, pipeVars, seedVars, fh>>

DataNext == Construct

DataSpec == DataInit /\ [][DataNext]_vars

\* ------------------------------------------------------------ file handles
HandleOps == {"reset", "grow", "save_step", "get_value", "num_bands", "band_edges"}

\* A "with self.open(..)" block: whose it is, and whether its body reads a
\* property of the backend that opens the file itself.
WithBlock(who, nested) == [who |-> who, nested |-> nested]

\* The "with" blocks an operation goes through, in order. The base class
\* and its properties (initialized, iteration) open the file in blocks of
\* their own; alt is a reset without its keywords or a get_value with
\* slice_vals.
op_segments(op, alt) ==
  CASE op = "reset" ->
         IF alt THEN <<>>
         ELSE <<WithBlock("base", FALSE), WithBlock("own", FALSE)>>
    [] op = "grow" -> <<WithBlock("base", FALSE), WithBlock("own", FALSE)>>
    [] op = "save_step" ->
         \* hasattr(self, "num_bands") inside the block evaluates the
         \* num_bands property
         <<WithBlock("base", FALSE), WithBlock("own", TRUE)>>
    [] op = "get_value" ->
         IF alt
         THEN <<WithBlock("initialized", FALSE), WithBlock("own", FALSE)>>
         ELSE <<WithBlock("initialized", FALSE), WithBlock("iteration", FALSE),
                WithBlock("own", FALSE)>>
    [] op = "num_bands" -> <<WithBlock("own", FALSE)>>
    [] op = "band_edges" -> <<WithBlock("own", FALSE)>>

\* Leaving a "with" block closes its handle, whether the body raised or not.
with_exit(open, raised) == open - 1

HandleInit ==
  /\ StoreIdle
  /\ PipeIdle
  /\ SeedIdle
  /\ DataIdle
  /\ HandleIdle

\* An operation of the store is called.
HandleCall ==
  /\ fh.phase \in {"idle", "returned"}
  /\ fh.calls < MaxCalls
  /\ \E op \in HandleOps, alt \in BOOLEAN :
       /\ alt => op \in {"reset", "get_value"}
       /\ fh' = [fh EXCEPT !.op = op, !.segs = op_segments(op, alt),
                           !.phase = "between", !.status = "running",
                           !.calls = fh.calls + 1]
  /\ UNCHANGED <<storeAll, pipeVars, seedVars, container>>

\* self.open(..) at the head of the next "with" block.
HandleOpen ==
  /\ fh.phase = "between"
  /\ fh.segs # <<>>
  /\ fh' = [fh EXCEPT !.phase = "open", !.open = fh.open + 1]
  /\ UNCHANGED <<storeAll, pipeVars, seedVars, container>>

\* The body of the block reads a property that opens the file: the second
\* open of the file in the process is granted, or refused with OSError.
HandleNestedOpen ==
  /\ fh.phase = "open"
  /\ Head(fh.segs).nested
  /\ \E granted \in BOOLEAN :
       IF granted
       THEN fh' = [fh EXCEPT !.phase = "nested", !.open = fh.open + 1]
       ELSE fh' = [fh EXCEPT !.phase = "between", !.segs = <<>>,
                             !.open = with_exit(fh.open, TRUE),
                             !.status = "OSError"]
  /\ UNCHANGED <<storeAll, pipeVars, seedVars, container>>

\* The property returns, leaving its own "with" block.
HandleNestedClose ==
  /\ fh.phase = "nested"
  /\ fh' = [fh EXCEPT !.phase = "open", !.open = with_exit(fh.open, FALSE),
                      !.segs = <<WithBlock(Head(fh.segs).who, FALSE)>> \o Tail(fh.segs)]
  /\ UNCHANGED <<storeAll, pipeVars, seedVars, container>>

\* The body of the block ends, normally or by raising, and the block is left.
HandleClose ==
  /\ fh.phase = "open"
  /\ ~Head(fh.segs).nested
  /\ \E raised \in BOOLEAN :
       fh' = [fh EXCEPT !.phase = "between",
                        !.open = with_exit(fh.open, raised),
                        !.segs = IF raised THEN <<>> ELSE Tail(fh.segs),
                        !.status = IF raised THEN "raised" ELSE fh.status]
  /\ UNCHANGED <<storeAll, pipeVars, seedVars, container>>

\* The operation returns or its exception reaches the caller.
HandleReturn ==
  /\ fh.phase = "between"
  /\ fh.segs = <<>>
  /\ fh' = [fh EXCEPT !.phase = "returned",
                      !.status = IF fh.status = "running" THEN "ok" ELSE fh.status]
  /\ UNCHANGED <<storeAll, pipeVars, seedVars, container>>

HandleNext ==
  \/ HandleCall
  \/ HandleOpen
  \/ HandleNestedOpen
  \/ HandleNestedClose
  \/ HandleClose
  \/ HandleReturn

HandleSpec == HandleInit /\ [][HandleNext]_vars

\* ------------------------------------------------------------ properties
Reads == {"get_value", "get_band_info"}

DiagLen(k) == Len(band_info[k].data)

\* The rows data[start:stop:step], written out index by index.
ManualSlice(data, start, stop, step) ==
  LET idxs == { i \in 0..(Len(data) - 1) :
                  i >= start /\ i < stop /\ (i - start) % step = 0 }
  IN [j \in 1..Cardinality(idxs) |-> data[start + (j - 1) * step + 1]]

\* C1: whenever the store exists, every band-diagnostics array has the
\* iteration-axis length of the base ensemble arrays.
InvariantA ==
  initialized => \A k \in DiagSet : DiagLen(k) = baseLen

\* C2: after reset, grow(k) and k save_step calls, get_value("band_info",
\* thin=1, discard=0) returns arrays of length k whose row i is what the i-th
\* save_step call was given.
ScenarioReadBack ==
  ( /\ scen.phase = "grown" /\ scen.k >= 1 /\ scen.n = scen.k
    /\ ret.op = "get_value" /\ ~ret.sliced /\ ret.thin = 1 /\ ret.discard = 0 )
  => /\ ret.status = "ok"
     /\ Len(passed) = scen.k
     /\ \A k \in DiagSet :
          /\ Len(ret.val[k]) = scen.k
          /\ \A i \in 1..scen.k : ret.val[k][i] = StateValue(passed[i], k)

\* C3: a reset without num_bands or without band_edges raises ValueError and
\* leaves an existing store as it was.
ResetRejectsMissing ==
  [][ (ret'.op = "reset" /\ ((~ret'.nbGiven) \/ (~ret'.beGiven)))
      => (ret'.status = "ValueError" /\ UNCHANGED storeVars) ]_vars

ResetRejectsMissingWitness ==
  /\ ret.op = "reset" /\ ret.status = "ValueError"
  /\ initialized /\ iteration > 0

\* C4: get_value / get_band_info before any reset or with zero committed
\* iterations raise the not-initialized error and return nothing.
ReadsNeedData ==
  (ret.op \in Reads /\ ((~initialized) \/ iteration = 0))
  => (ret.status = "AttributeError" /\ ret.val = NoVal)

ReadsNeedDataWitness ==
  /\ ret.op = "get_band_info" /\ ret.status = "AttributeError"
  /\ initialized /\ iteration = 0 /\ baseLen > 0

ExactlyOnce ==
  [][ ret'.op = "save_step" =>
        /\ rewritten' = FALSE
        /\ \A s \in written :
             s[2] + 1 <= DiagLen(s[1])
               => band_info'[s[1]].data[s[2] + 1] = band_info[s[1]].data[s[2] + 1]
        /\ ret'.status = "ok" =>
             /\ iteration' = iteration + 1
             /\ \A k \in DiagSet :
                  /\ Len(band_info'[k].data) = DiagLen(k)
                  /\ iteration' <= DiagLen(k)
                  /\ band_info'[k].data[iteration'] = StateValue(state, k)
                  /\ \A i \in 1..DiagLen(k) :
                       i # iteration' => band_info'[k].data[i] = band_info[k].data[i]
                  /\ <<k, iteration' - 1>> \notin written
                  /\ <<k, iteration' - 1>> \in written' ]_vars

ExactlyOnceWitness ==
  /\ ret.op = "save_step" /\ ret.status = "ok"
  /\ iteration = 2
  /\ written = DiagSet \X {0, 1}

\* C8: a grow that raises leaves the iteration-axis length of the base
\* arrays and of every array of the diagnostics group unchanged.
GrowAllOrNothing ==
  [][ (ret'.op = "grow" /\ ret'.status # "ok")
      => /\ baseLen' = baseLen
         /\ \A k \in KeySet : Len(band_info'[k].data) = DiagLen(k) ]_vars

\* C9: grow and save_step leave the stored band edges, the stored num_bands
\* and the band / temperature / walker dimensions unchanged.
WriteOncePartition ==
  [][ ret'.op \in {"grow", "save_step"}
      => /\ band_info'["band_edges"].data = band_info["band_edges"].data
         /\ attrNumBands' = attrNumBands
         /\ shape' = shape ]_vars

\* C10: the num_bands property returns the num_bands passed to reset, which
\* is the band dimension of the diagnostics arrays.
NumBandsReadBack ==
  (ret.op = "num_bands" /\ ret.status = "ok")
  => (ret.num = resetArgs.num_bands /\ ret.num = shape.num_bands)

\* C11: the band_edges property returns the band edges passed to the last
\* successful reset.
BandEdgesReadBack ==
  (ret.op = "band_edges" /\ initialized)
  => (ret.status = "ok" /\ ret.edges = resetArgs.band_edges)

\* C12: reset_kwargs holds every parameter reset requires, so a reset with
\* those keyword arguments succeeds and keeps num_bands and the band edges.
ResetKwargsRoundTrip ==
  ret.op = "reset_from_kwargs"
  => /\ ret.status = "ok"
     /\ {"num_bands", "band_edges"} \subseteq ret.keys
     /\ ret.num = resetArgs.num_bands
     /\ band_info["band_edges"].data = resetArgs.band_edges

\* C13: get_a_sample(it) for a committed iteration it whose diagnostics row
\* was written returns, for every diagnostics array, exactly that one row.
SingleIterationSample ==
  (ret.op = "get_a_sample" /\ \A k \in DiagSet : <<k, ret.n - 1>> \in written)
  => /\ ret.status = "ok"
     /\ \A k \in DiagSet : ret.val[k] = <<StateValue(passed[ret.n], k)>>

\* The events the log holds for stage i, in the order they happened.
StageEvents(i) ==
  LET idx == { k \in DOMAIN log : log[k].stage = i }
      RECURSIVE collect(_)
      collect(k) ==
        IF k > Len(log) THEN <<>>
        ELSE (IF k \in idx THEN <<log[k].ev>> ELSE <<>>) \o collect(k + 1)
  IN collect(1)

IsPrefix(a, b) == Len(a) <= Len(b) /\ \A k \in DOMAIN a : a[k] = b[k]

Published(i) == { k \in DOMAIN log : log[k].stage = i /\ log[k].ev = "publish" }

\* C14: the run goes through the stages in list order, one at a time and each
\* at most once; a stage binds, then runs, then publishes, and the next stage
\* binds only after the stage before it has published.
StageOrder ==
  /\ \A a, b \in DOMAIN log : a < b => log[a].stage <= log[b].stage
  /\ \A i \in 1..Len(module_list) :
       IsPrefix(StageEvents(i), <<"bind", "run", "publish">>)
  /\ \A b \in DOMAIN log :
       log[b].ev = "bind" /\ log[b].stage > 1
         => \E a \in 1..(b - 1) :
              log[a].stage = log[b].stage - 1 /\ log[a].ev = "publish"
  /\ log # <<>> => log[1].stage = 1
  /\ pc \in {"bind", "run"} => cur \in 1..Len(module_list)
  /\ \A i \in 1..Len(module_list) : StageEvents(i) # <<>> => i <= cur

StageOrderWitness ==
  /\ pc = "done"
  /\ Len(module_list) = 2
  /\ StageEvents(1) = <<"bind", "run", "publish">>
  /\ StageEvents(2) = <<"bind", "run", "publish">>

\* C15: an error in the bind or the run of stage i leaves PipelineGuide.run:
\* the run is over, stage i has not published, no later stage has bound or
\* run, and the locations held by the InfoManager are those of before.
FatalStageFailure ==
  [][error' # "none"
       => /\ pc' = "failed"
          /\ cur' = cur
          /\ Published(cur') = {}
          /\ \A k \in DOMAIN log' : log'[k].stage <= cur'
          /\ info'.fields = info.fields]_vars

FatalStageFailureWitness ==
  /\ pc = "failed"
  /\ cur = 2
  /\ error = "run"
  /\ info.fields["fp_search_init"] = StagePath(1)

\* The run is called and, once called, every call it makes returns or raises.
PipeLive == PipeSpec /\ WF_vars(RunStart) /\ WF_vars(UpdateModule) /\ WF_vars(RunModule)

\* C16: a run in which no bind and no run raises reaches Done, and in Done
\* every stage of the list has published its location exactly once.
RunCompletes ==
  /\ [](pc = "done" =>
          \A i \in 1..Len(module_list) : Cardinality(Published(i)) = 1)
  /\ <>(pc = "done" \/ error # "none")

RunCompletesWitness ==
  /\ pc = "done"
  /\ error = "none"
  /\ Len(module_list) = 2
  /\ module_list[2].type = "relbin_pe"
  /\ info.fields["fp_pe"] = StagePath(2)

\* Pairs of module kinds in which the first publishes the attribute the
\* second reads.
HandoffPairs ==
  { <<"search", "refine">>, <<"search", "relbin_search">>,
    <<"relbin_search", "relbin_pe">> }

\* C17 (as stated): the store a non-first stage opens to seed its ensemble is
\* the location published by the stage immediately before it.
HandoffFromPrevious ==
  \A i \in 2..Len(module_list) :
    opened[i] # {} => opened[i] = {StagePath(i - 1)}

\* C17 (amended): when the stage immediately before publishes the attribute
\* the stage reads, the store the stage opens is that stage's location.
HandoffFromPublisher ==
  \A i \in 2..Len(module_list) :
    (opened[i] # {} /\ <<module_list[i - 1].type, module_list[i].type>> \in HandoffPairs)
      => opened[i] = {StagePath(i - 1)}

HandoffFromPublisherWitness ==
  /\ pc = "done"
  /\ Len(module_list) = 2
  /\ module_list[1].type = "relbin_search"
  /\ module_list[2].type = "relbin_pe"
  /\ opened[2] = {StagePath(1)}

Bound(i) == stops[i] # NoStop

BothAbsent(i) == ~module_list[i].n_iter_stop /\ ~module_list[i].snr_stopping

\* The sampler of stage i, if it returned, returned at its iteration budget.
RanToBudget(i) ==
  \A k \in DOMAIN log :
    (log[k].stage = i /\ log[k].ev = "run" /\ log[k].why # "error")
      => log[k].why = "budget"

\* C19 (as stated): every bound stage has at most one stopping function, and
\* a stage given neither n_iter_stop nor snr_stopping has none and runs to
\* its iteration budget.
StoppingAllStages ==
  \A i \in 1..Len(module_list) :
    Bound(i) =>
      /\ Cardinality(stops[i].fns) <= 1
      /\ BothAbsent(i) => (stops[i].fns = {} /\ RanToBudget(i))

\* C19 (amended): every bound stage has at most one stopping function; an
\* MBHBase stage given neither parameter has none and runs to its budget,
\* MBHRelBinSearch always has the convergence one, MBHRelBinPE never has one.
StoppingPerType ==
  \A i \in 1..Len(module_list) :
    Bound(i) =>
      /\ Cardinality(stops[i].fns) <= 1
      /\ (module_list[i].type \in MBHBaseTypes /\ BothAbsent(i))
           => (stops[i].fns = {} /\ RanToBudget(i))
      /\ (module_list[i].type \in MBHBaseTypes /\ module_list[i].n_iter_stop)
           => stops[i].fns = {"converge"}
      /\ module_list[i].type = "relbin_search" => stops[i].fns = {"converge"}
      /\ module_list[i].type = "relbin_pe" => (stops[i].fns = {} /\ RanToBudget(i))

StoppingPerTypeWitness ==
  /\ pc = "done"
  /\ Len(module_list) = 2
  /\ module_list[1].type = "search"
  /\ module_list[1].n_iter_stop /\ module_list[1].snr_stopping
  /\ stops[1].fns = {"converge"}
  /\ module_list[2].type = "refine" /\ BothAbsent(2)
  /\ stops[2].fns = {}
  /\ \E k \in DOMAIN log : log[k] = Event("run", 2, "budget")

\* C20: the frequency grid of the InfoManager is as long as its data
\* channels, after construction and after every update_info and publish.
GridMatchesData == info.fd_len = info.data_length

Distinct(lp) == { lp[i] : i \in DOMAIN lp }

Selected == { start_inds[j] : j \in DOMAIN start_inds }

\* The place of sample s in the sorted order perm.
SortedPos(s) == CHOOSE k \in DOMAIN perm : perm[k] = s

\* C18: the selected samples are the first occurrences, in the sorted order,
\* of the largest distinct log-likelihood values, at most ntemps*nwalkers of
\* them and by ascending value; when there are at least ntemps*nwalkers
\* distinct values exactly that many samples are selected, with pairwise
\* distinct values, each at least every unselected distinct value.
SeedingRule ==
  seedPc = "done" =>
    LET chosen == { log_prob[s] : s \in Selected }
    IN /\ Len(start_inds) = Min(nsel, Cardinality(Distinct(log_prob)))
       /\ \A j \in 1..(Len(start_inds) - 1) :
            log_prob[start_inds[j]] < log_prob[start_inds[j + 1]]
       /\ \A s \in Selected :
            \A k \in DOMAIN perm :
              log_prob[perm[k]] = log_prob[s] => SortedPos(s) <= k
       /\ \A v \in Distinct(log_prob) \ chosen : \A c \in chosen : v < c
       /\ Cardinality(Distinct(log_prob)) >= nsel =>
            /\ Len(start_inds) = nsel
            /\ Cardinality(chosen) = nsel
            /\ \A v \in Distinct(log_prob) \ chosen : \A c \in chosen : c >= v

SeedingRuleWitness ==
  /\ seedPc = "done"
  /\ log_prob = <<1, 0, 1>>
  /\ nsel = 1
  /\ perm = <<2, 3, 1>>
  /\ start_inds = <<3>>

GivenCount == 3 - number_of_none(container.dt, container.f_arr > 0, container.df)

\* C21: a DataResidualArray is built from raw data only when exactly one of
\* dt, f_arr, df is given; with none, two or three of them the constructor
\* raises ValueError in _check_inputs, before the data is stored.
SingleSourceOfTruth ==
  container.pc = "done" =>
    /\ container.status = "ok" => GivenCount = 1
    /\ GivenCount # 1 =>
         /\ container.status = "ValueError"
         /\ container.raisedAt = "check"
         /\ ~container.stored

\* The diagnostics row of committed iteration n holds what was passed to the
\* save_step of that iteration.
RowHolds(n) ==
  \A k \in DiagSet :
    /\ n <= Len(band_info[k].data)
    /\ band_info[k].data[n] = StateValue(passed[n], k)

\* C22: when the process stopped during save_step, every iteration the
\* iteration counter counts as committed has its diagnostics row holding the
\* counters passed to its save_step.
CrashConsistent ==
  ret.op = "crash" => \A n \in 1..iteration : RowHolds(n)

\* C23: while an operation of the store runs at most one handle on the file
\* is open, and after it returned or raised none is.
ExclusiveHandle ==
  /\ fh.open <= 1
  /\ fh.phase = "returned" => fh.open = 0

\* The step in which the stage under way publishes its location.
PublishStep ==
  /\ pc = "run"
  /\ Len(log') > Len(log)
  /\ log'[Len(log')] = Event("publish", cur, "ok")

\* The attributes that hold a location published by a stage other than i.
PublishedByOthers(i) ==
  { f \in FieldNames :
      \E j \in 1..Len(module_list) : j # i /\ info.fields[f] = StagePath(j) }

\* C24 (as stated): a publish leaves the data, the frequency grid and every
\* location published by another stage of the run unchanged.
PublishFrameAllStages ==
  [][PublishStep
       => /\ info'.data_length = info.data_length
          /\ info'.fd_len = info.fd_len
          /\ \A f \in PublishedByOthers(cur) :
               info'.fields[f] = info.fields[f]]_vars

\* C24 (amended): a publish sets the one attribute of the stage's type to the
\* stage's location and leaves the data, the frequency grid and every other
\* attribute unchanged.
PublishFrameOwnField ==
  [][PublishStep
       => /\ info'.data_length = info.data_length
          /\ info'.fd_len = info.fd_len
          /\ \E own \in FieldNames :
               /\ info'.fields[own] = StagePath(cur)
               /\ \A f \in FieldNames \ {own} : info'.fields[f] = info.fields[f]]_vars

PublishFrameOwnFieldWitness ==
  /\ pc = "done"
  /\ Len(module_list) = 3
  /\ info.fields["fp_search_init"] = StagePath(1)
  /\ info.fields["fp_search"] = StagePath(2)
  /\ info.fields["fp_pe"] = StagePath(3)

\* C25 (as stated): the cadence at which an installed stopping function is
\* evaluated is the one given in the configuration of the stage.
CadenceFromConfiguration ==
  \A i \in 1..Len(module_list) :
    (Bound(i) /\ stops[i].fns # {}) => stops[i].iters = module_list[i].cadence

\* C25 (amended): an installed stopping function is evaluated every 10
\* iterations in an MBHBase stage and every 20 in an MBHRelBinSearch stage,
\* whatever the configuration says.
CadenceFixed ==
  \A i \in 1..Len(module_list) :
    (Bound(i) /\ stops[i].fns # {}) =>
      stops[i].iters = IF module_list[i].type \in MBHBaseTypes THEN 10 ELSE 20

CadenceFixedWitness ==
  /\ pc = "done"
  /\ Len(module_list) = 2
  /\ module_list[1].type = "search" /\ module_list[1].snr_stopping
  /\ module_list[1].cadence = 5
  /\ stops[1].iters = 10
  /\ module_list[2].type = "relbin_search" /\ module_list[2].cadence = 5
  /\ stops[2].iters = 20

\* C26: after grow(n) on a store with c committed iterations every
\* diagnostics array has c + n rows, of which the first c are those of
\* before, so that the next n save_step calls have a row to write.
GrowKeepsCommitted ==
  [][ (ret'.op = "grow" /\ initialized)
      => \A k \in DiagSet :
           /\ Len(band_info'[k].data) = iteration + ret'.n
           /\ \A i \in 1..iteration :
                /\ i <= DiagLen(k)
                /\ band_info'[k].data[i] = band_info[k].data[i] ]_vars

====
